---- MODULE Spec2Model ----
(***************************************************************************)
(* Model of procrustes/doc/notebooks/Atom_Atom_Mapping.ipynb: the six code *)
(* cells of the notebook, run by one kernel, and the objective             *)
(*   min_P || P^T A P - B ||_F^2                                           *)
(* the notebook states for the two-sided permutation Procrustes problem.   *)
(*                                                                         *)
(* Matrices are tuples of rows, as the np.array literals are written.      *)
(* Every number the notebook handles is an integer (the floats of P are    *)
(* 0. and 1.), so entries are modelled as integers.                        *)
(***************************************************************************)
EXTENDS Integers, Sequences, FiniteSets, TLC

VARIABLES
    n,          \* the kernel's execution counter (the last In[n])
    bound,      \* the names bound in the kernel's namespace
    error,      \* "" or the exception that stopped the run
    hist,       \* document indices of the code cells run so far, in order
    A,          \* namespace: A          (<<>> while unbound)
    B,          \* namespace: B
    result,     \* namespace: result     (fields t, new_a, new_b)
    P,          \* namespace: P
    new_A,      \* namespace: new_A
    stdout,     \* what the cells printed, in order
    Q,          \* a candidate permutation matrix of the objective
    QtAQ,       \* Q^T new_a Q for that candidate
    dQ          \* || Q^T new_a Q - B ||_F^2 for that candidate (-1: none yet)

vars == <<n, bound, error, hist, A, B, result, P, new_A, stdout, Q, QtAQ, dQ>>

----------------------------------------------------------------------------
(* Data of the notebook *)

\* cell In[2]: molecule A, but-1-en-3-yne
Cell2_A ==
    << <<6, 3, 0, 0>>,
       <<3, 6, 1, 0>>,
       <<0, 1, 6, 2>>,
       <<0, 0, 2, 6>> >>

\* cell In[3]: molecule B, 3,3-dimethylpent-1-en-4-yne
Cell3_B ==
    << <<6, 3, 0, 0, 0, 0, 0>>,
       <<3, 6, 1, 0, 0, 0, 0>>,
       <<0, 1, 6, 1, 0, 1, 1>>,
       <<0, 0, 1, 6, 2, 0, 0>>,
       <<0, 0, 0, 2, 6, 0, 0>>,
       <<0, 0, 1, 0, 0, 6, 0>>,
       <<0, 0, 1, 0, 0, 0, 6>> >>

\* A plausible slip in the recorded transformation: no relabelling at all.
Out5_identity ==
    << <<1, 0, 0, 0, 0, 0, 0>>,
       <<0, 1, 0, 0, 0, 0, 0>>,
       <<0, 0, 1, 0, 0, 0, 0>>,
       <<0, 0, 0, 1, 0, 0, 0>>,
       <<0, 0, 0, 0, 1, 0, 0>>,
       <<0, 0, 0, 0, 0, 1, 0>>,
       <<0, 0, 0, 0, 0, 0, 1>> >>

\* A plausible slip in the recorded transformation: rows 4 and 5 both select
\* column 3, so column 5 selects nothing.
Out5_repeated ==
    << <<1, 0, 0, 0, 0, 0, 0>>,
       <<0, 1, 0, 0, 0, 0, 0>>,
       <<0, 0, 0, 1, 0, 0, 0>>,
       <<0, 0, 1, 0, 0, 0, 0>>,
       <<0, 0, 1, 0, 0, 0, 0>>,
       <<0, 0, 0, 0, 0, 1, 0>>,
       <<0, 0, 0, 0, 0, 0, 1>> >>

\* the recorded output of cell In[5], print(P) with P = result.t
Out5 ==
    << <<1, 0, 0, 0, 0, 0, 0>>,
       <<0, 1, 0, 0, 0, 0, 0>>,
       <<0, 0, 0, 1, 0, 0, 0>>,
       <<0, 0, 0, 0, 1, 0, 0>>,
       <<0, 0, 1, 0, 0, 0, 0>>,
       <<0, 0, 0, 0, 0, 1, 0>>,
       <<0, 0, 0, 0, 0, 0, 1>> >>

\* the recorded output of cell In[6], print("Transformed A: \n", new_A)
Out6 ==
    << <<6, 3, 0, 0, 0, 0, 0>>,
       <<3, 6, 0, 1, 0, 0, 0>>,
       <<0, 0, 0, 0, 0, 0, 0>>,
       <<0, 1, 0, 6, 2, 0, 0>>,
       <<0, 0, 0, 2, 6, 0, 0>>,
       <<0, 0, 0, 0, 0, 0, 0>>,
       <<0, 0, 0, 0, 0, 0, 0>> >>

\* A plausible slip: the call of cell In[4] run before B is defined.
execution_count_swapped == <<1, 2, 4, 3, 5, 6>>

\* the execution_count fields of the six code cells, in document order
execution_count == <<1, 2, 3, 4, 5, 6>>

\* the names each code cell reads, in document order
reads ==
    << {},
       {"np"},
       {"np"},
       {"permutation_2sided", "A", "B"},
       {"result"},
       {"np", "P", "result"} >>

\* the names each code cell binds, in document order
writes ==
    << {"np", "permutation_2sided"},
       {"A"},
       {"B"},
       {"result"},
       {"P"},
       {"new_A"} >>

----------------------------------------------------------------------------
(* numpy operations the cells use *)

RECURSIVE SumTo(_, _)
\* f[1] + ... + f[k]
SumTo(f, k) == IF k = 0 THEN 0 ELSE f[k] + SumTo(f, k - 1)

\* A plausible slip: the operands multiplied in the other order.
dot_reversed(X, Y) ==
    LET x == X
        y == Y
    IN  [i \in 1..Len(y) |->
            [j \in 1..Len(x[1]) |->
                LET row == [k \in 1..Len(x) |-> y[i][k] * x[k][j]]
                IN  SumTo(row, Len(x))]]

\* np.dot(X, Y) of two 2-D arrays
dot(X, Y) ==
    LET x == X
        y == Y
    IN  [i \in 1..Len(x) |->
            [j \in 1..Len(y[1]) |->
                LET row == [k \in 1..Len(y) |-> x[i][k] * y[k][j]]
                IN  SumTo(row, Len(y))]]

\* A plausible slip: the transpose left out.
T_missing(X) == X

\* X.T
T(X) == [j \in 1..Len(X[1]) |-> [i \in 1..Len(X) |-> X[i][j]]]

\* X.astype(int): truncation towards zero, entry by entry; the entries are
\* integer-valued, so each is its own truncation.
astype_int(X) == [i \in 1..Len(X) |-> [j \in 1..Len(X[i]) |-> X[i][j]]]

\* A plausible slip: P A P, the .T of the left factor forgotten.
transform_untransposed(t, a) == dot(t, dot(a, t))

\* P^T A P, as cell In[6] computes it
transform(t, a) == dot(T(t), dot(a, t))

\* || X - Y ||_F^2
frobenius2(X, Y) ==
    LET x == X
        y == Y
        rows == [i \in 1..Len(x) |->
                    LET sq == [j \in 1..Len(x[i]) |->
                                  (x[i][j] - y[i][j]) * (x[i][j] - y[i][j])]
                    IN  SumTo(sq, Len(x[i]))]
    IN  SumTo(rows, Len(x))

----------------------------------------------------------------------------
(* procrustes.permutation_2sided *)

\* the smaller matrix padded with zero rows and columns to size m x m
zero_padding(a, m) ==
    [i \in 1..m |->
        [j \in 1..m |->
            IF i <= Len(a) /\ j <= Len(a[i]) THEN a[i][j] ELSE 0]]

\* permutation_2sided(a, b, method="approx-normal1", single=True, pad=pad):
\* the arrays it worked on and the transformation it returned, which is the
\* one cell In[5] printed.
permutation_2sided(a, b, pad) ==
    [new_a |-> IF pad THEN zero_padding(a, Len(b)) ELSE a,
     new_b |-> b,
     t     |-> Out5]

\* the permutation matrix with its single 1 of column c in row s[c]
PermutationMatrix(s) ==
    [r \in DOMAIN s |-> [c \in DOMAIN s |-> IF s[c] = r THEN 1 ELSE 0]]

----------------------------------------------------------------------------
(* The kernel *)

NoValue == <<>>

Init ==
    /\ n = 0
    /\ bound = {}
    /\ error = ""
    /\ hist = <<>>
    /\ A = NoValue
    /\ B = NoValue
    /\ result = [new_a |-> NoValue, new_b |-> NoValue, t |-> NoValue]
    /\ P = NoValue
    /\ new_A = NoValue
    /\ stdout = <<>>
    /\ Q = NoValue
    /\ QtAQ = NoValue
    /\ dQ = -1

\* The kernel runs code cell k (document index) as In[n + 1]: a cell that
\* reads a name nothing has bound raises NameError and binds nothing.
Run(k) ==
    /\ error = ""
    /\ execution_count[k] = n + 1
    /\ n' = n + 1
    /\ hist' = Append(hist, k)
    /\ error' = IF reads[k] \subseteq bound THEN "" ELSE "NameError"
    /\ bound' = IF reads[k] \subseteq bound THEN bound \cup writes[k] ELSE bound

Ok(k) == reads[k] \subseteq bound

\* import numpy as np; from procrustes import permutation_2sided
Cell1 ==
    /\ Run(1)
    /\ UNCHANGED <<A, B, result, P, new_A, stdout, Q, QtAQ, dQ>>

\* A = np.array([...])
Cell2 ==
    /\ Run(2)
    /\ A' = IF Ok(2) THEN Cell2_A ELSE A
    /\ UNCHANGED <<B, result, P, new_A, stdout, Q, QtAQ, dQ>>

\* B = np.array([...])
Cell3 ==
    /\ Run(3)
    /\ B' = IF Ok(3) THEN Cell3_B ELSE B
    /\ UNCHANGED <<A, result, P, new_A, stdout, Q, QtAQ, dQ>>

\* A plausible slip: the call made without pad=True.
Cell4_nopad ==
    /\ Run(4)
    /\ result' = IF Ok(4) THEN permutation_2sided(A, B, FALSE) ELSE result
    /\ UNCHANGED <<A, B, P, new_A, stdout, Q, QtAQ, dQ>>

\* result = permutation_2sided(A, B, method="approx-normal1",
\*                             single=True, pad=True)
Cell4 ==
    /\ Run(4)
    /\ result' = IF Ok(4) THEN permutation_2sided(A, B, TRUE) ELSE result
    /\ UNCHANGED <<A, B, P, new_A, stdout, Q, QtAQ, dQ>>

\* P = result.t; print(P)
Cell5 ==
    /\ Run(5)
    /\ P' = IF Ok(5) THEN result.t ELSE P
    /\ stdout' = IF Ok(5) THEN Append(stdout, result.t) ELSE stdout
    /\ UNCHANGED <<A, B, result, new_A, Q, QtAQ, dQ>>

\* new_A = np.dot(P.T, np.dot(result.new_a, P)).astype(int)
\* print("Transformed A: \n", new_A)
Cell6 ==
    /\ Run(6)
    /\ new_A' = IF Ok(6) THEN astype_int(transform(P, result.new_a)) ELSE new_A
    /\ stdout' = IF Ok(6)
                 THEN Append(stdout, astype_int(transform(P, result.new_a)))
                 ELSE stdout
    /\ UNCHANGED <<A, B, result, P, Q, QtAQ, dQ>>

\* The objective of the notebook, min_P || P^T A P - B ||_F^2, evaluated at
\* one candidate permutation matrix on the arrays the call worked on.
Objective ==
    /\ error = ""
    /\ "new_A" \in bound
    /\ dQ = -1
    /\ \E s \in Permutations(1..Len(result.new_b)) :
          /\ Q' = PermutationMatrix(s)
          /\ QtAQ' = transform(Q', result.new_a)
          /\ dQ' = frobenius2(QtAQ', result.new_b)
    /\ UNCHANGED <<n, bound, error, hist, A, B, result, P, new_A, stdout>>

Next ==
    \/ Cell1
    \/ Cell2
    \/ Cell3
    \/ Cell4
    \/ Cell5
    \/ Cell6
    \/ Objective

Spec == Init /\ [][Next]_vars

----------------------------------------------------------------------------
(* Vocabulary of the properties *)

\* the indices of a square matrix of the padded size
Idx == 1..Len(Cell3_B)

\* the number of atoms of molecule A
NA == Len(Cell2_A)

\* M is an m x m matrix of 0s and 1s with exactly one 1 in every row and in
\* every column
IsPermutationMatrix(M, m) ==
    /\ Len(M) = m
    /\ \A i \in 1..m : Len(M[i]) = m
    /\ \A i \in 1..m : \A j \in 1..m : M[i][j] \in {0, 1}
    /\ \A i \in 1..m : Cardinality({j \in 1..m : M[i][j] = 1}) = 1
    /\ \A j \in 1..m : Cardinality({i \in 1..m : M[i][j] = 1}) = 1

\* s(i): the row of the single 1 in column i of the permutation matrix M
RowOf(M, i) == CHOOSE r \in 1..Len(M) : M[r][i] = 1

\* row i and column i of M are all zero
ZeroIndex(M, i) == \A j \in 1..Len(M) : M[i][j] = 0 /\ M[j][i] = 0

\* the off-diagonal positions of M that hold v
Pos(M, v) == {ij \in Idx \X Idx : ij[1] # ij[2] /\ M[ij[1]][ij[2]] = v}

\* how many diagonal entries of M equal v
DiagCount(M, v) == Cardinality({i \in Idx : M[i][i] = v})

\* the values M holds
Entries(M) == {M[ij[1]][ij[2]] : ij \in Idx \X Idx}

IdentityMatrix == PermutationMatrix([i \in Idx |-> i])

\* the objective at the transformation the call returned
dP == frobenius2(transform(result.t, result.new_a), B)

Evaluated == dQ # -1

----------------------------------------------------------------------------
(* Properties *)

\* C1: the P returned for the notebook's A and B is optimal: no 7x7
\* permutation matrix Q gives a smaller || Q^T A Q - B ||_F^2 than P does.
C1_Optimal == Evaluated => dP <= dQ

\* a candidate other than P reaches the same minimum, and another does not
C1_Witness == Evaluated /\ Q # result.t /\ dQ = dP

\* C2: with pad=True the smaller A is zero-padded to the shape of B:
\* result.new_a is 7x7, its top-left 4x4 block is the input A, every entry
\* with a row or column index beyond 4 is zero, and B is unchanged.
C2_ZeroPadded ==
    "result" \in bound =>
        /\ A = Cell2_A
        /\ Len(result.new_a) = 7
        /\ \A i \in 1..7 : Len(result.new_a[i]) = 7
        /\ \A i \in 1..7 : \A j \in 1..7 :
              result.new_a[i][j] = IF i <= 4 /\ j <= 4 THEN A[i][j] ELSE 0
        /\ B = Cell3_B
        /\ result.new_b = B

C2_Witness ==
    /\ "result" \in bound
    /\ Len(A) = 4
    /\ result.new_a[4][3] = 2
    /\ result.new_a[5][5] = 0

\* C3: result.t is a permutation matrix of the padded size: 7x7, entries 0
\* or 1, exactly one 1 in every row and every column.
C3_PermutationMatrix ==
    "result" \in bound =>
        /\ IsPermutationMatrix(result.t, 7)
        /\ Len(result.t) = Len(result.new_a)

C3_Witness == "P" \in bound /\ P = result.t /\ P[5][3] = 1 /\ P[3][3] = 0

\* C4: P^T new_a P, with the printed P and the zero-padded A, is exactly the
\* matrix the notebook prints as "Transformed A".
C4_TransformedA ==
    "new_A" \in bound =>
        /\ stdout[1] = Out5
        /\ transform(stdout[1], zero_padding(Cell2_A, 7)) = Out6
        /\ new_A = Out6
        /\ stdout[2] = Out6

C4_Witness == "new_A" \in bound /\ Len(stdout) = 2 /\ new_A # result.new_a

\* C5: index i of P^T A P has an all-zero row and column exactly when
\* column i of P selects a padded row of A; there are 7 - 4 = 3 such
\* indices, and in the example they are atoms 3, 6 and 7.
C5_ZeroRows ==
    /\ "new_A" \in bound =>
          /\ \A i \in Idx : ZeroIndex(new_A, i) <=> RowOf(P, i) > NA
          /\ Cardinality({i \in Idx : ZeroIndex(new_A, i)}) = 7 - 4
          /\ {i \in Idx : ZeroIndex(new_A, i)} = {3, 6, 7}
    /\ Evaluated =>
          /\ \A i \in Idx : ZeroIndex(QtAQ, i) <=> RowOf(Q, i) > NA
          /\ Cardinality({i \in Idx : ZeroIndex(QtAQ, i)}) = 7 - 4

C5_Witness ==
    /\ Evaluated
    /\ ZeroIndex(new_A, 3) /\ RowOf(P, 3) = 5
    /\ {i \in Idx : ZeroIndex(QtAQ, i)} = {1, 2, 3}

\* C6: in the transformed A the triple bond (3) sits where the triple bond
\* of B sits, atoms 1-2, and the double bond (2) where the double bond of B
\* sits, atoms 4-5, in both triangles.
C6_BondsMatch ==
    "new_A" \in bound =>
        /\ Pos(new_A, 3) = {<<1, 2>>, <<2, 1>>}
        /\ Pos(new_A, 3) = Pos(B, 3)
        /\ Pos(new_A, 2) = {<<4, 5>>, <<5, 4>>}
        /\ Pos(new_A, 2) = Pos(B, 2)

C6_Witness ==
    /\ "new_A" \in bound
    /\ new_A[1][2] = 3 /\ B[2][1] = 3
    /\ new_A[5][4] = 2 /\ B[4][5] = 2
    /\ Pos(result.new_a, 2) # Pos(B, 2)

\* C7: with s(i) the row of the 1 in column i of P, every entry of the
\* transformed matrix is (P^T A P)[i][j] = A[s(i)][s(j)]; for the printed P,
\* s = (1, 2, 5, 3, 4, 6, 7).
C7_Mapping ==
    /\ "new_A" \in bound =>
          /\ \A i \in Idx : \A j \in Idx :
                new_A[i][j] = result.new_a[RowOf(P, i)][RowOf(P, j)]
          /\ [i \in Idx |-> RowOf(P, i)] = <<1, 2, 5, 3, 4, 6, 7>>
    /\ Evaluated =>
          \A i \in Idx : \A j \in Idx :
              QtAQ[i][j] = result.new_a[RowOf(Q, i)][RowOf(Q, j)]

C7_Witness ==
    /\ Evaluated
    /\ RowOf(P, 4) = 3 /\ new_A[4][5] = A[3][4]
    /\ [i \in Idx |-> RowOf(Q, i)] = <<7, 6, 5, 4, 3, 2, 1>>

\* C8: the code cells run in document order as In[1]..In[6]; every name a
\* cell reads was bound by an earlier cell, so no cell raises NameError; and
\* A and B are never rebound after their defining cells.
C8_CellOrder ==
    /\ [](/\ error = ""
          /\ n = Len(hist)
          /\ n <= 6
          /\ \A k \in 1..Len(hist) :
                /\ hist[k] = k
                /\ execution_count[hist[k]] = k
                /\ reads[hist[k]] \subseteq
                      UNION {writes[hist[m]] : m \in 1..(k - 1)})
    /\ [][/\ "A" \in bound => A' = A
          /\ "B" \in bound => B' = B]_vars

C8_Witness == n = 6 /\ hist = <<1, 2, 3, 4, 5, 6>> /\ "new_A" \in bound

\* C9: for any 7x7 permutation matrix Q, Q^T A Q is symmetric and has the
\* diagonal entries of the padded A (four 6s, three 0s) and its off-diagonal
\* entries, each as many times.
C9_Relabelling ==
    Evaluated =>
        /\ \A i \in Idx : \A j \in Idx : QtAQ[i][j] = QtAQ[j][i]
        /\ DiagCount(QtAQ, 6) = 4
        /\ DiagCount(QtAQ, 0) = 3
        /\ \A v \in Entries(QtAQ) \cup Entries(result.new_a) :
              /\ DiagCount(QtAQ, v) = DiagCount(result.new_a, v)
              /\ Cardinality(Pos(QtAQ, v)) = Cardinality(Pos(result.new_a, v))

C9_Witness ==
    /\ Evaluated
    /\ QtAQ # result.new_a
    /\ QtAQ[7][7] = 6
    /\ QtAQ[1][1] = 0

\* C10: the printed P is a strict improvement over the identity: the
\* distance of P^T A P to B is strictly smaller than that of the padded A.
C10_BetterThanIdentity ==
    /\ "new_A" \in bound =>
          frobenius2(new_A, B) < frobenius2(result.new_a, B)
    /\ (Evaluated /\ Q = IdentityMatrix) =>
          /\ QtAQ = result.new_a
          /\ dP < dQ

C10_Witness ==
    /\ Evaluated
    /\ Q = IdentityMatrix
    /\ dQ = 122
    /\ frobenius2(new_A, B) = 118

====
